---- MODULE Spec2Model ----
(***************************************************************************)
(* A model of DigiMark-Cuda/DigiMark.cpp: block tiling and reassembly,     *)
(* the per-block watermark placement, the two embedding passes over the    *)
(* transformed blocks, and the control flow of main with its exits and     *)
(* output files.                                                           *)
(*                                                                         *)
(* Conventions.  A cv::Mat is a record [rows, cols, at] with at a function *)
(* on <<row, col>> pairs (0-based).  A cv::Rect is [x, y, width, height]   *)
(* with x the column and y the row of its top-left corner; a cv::Point is  *)
(* [x, y].  Float coefficients are modelled as exact integers in a fixed   *)
(* unit, so rounding is not modelled.                                      *)
(***************************************************************************)
EXTENDS Integers, Sequences, FiniteSets, TLC

VARIABLES
    (* tiling / reassembly (createBlocks, assembleBlocks) *)
    tI,        \* the source image I
    tN,        \* the block size N handed to createBlocks
    tV,        \* the block vector V
    tT,        \* the target image handed to assembleBlocks
    tRois,     \* the dst_roi rectangles assembleBlocks computed, in order
    tpc,       \* "idle" | "start" | "tiled" | "exit" | "assembled" | "thrown"
    (* placeWatermark on one block *)
    eVi,       \* the block Vi
    eVin,      \* Vi as it was when placeWatermark was called
    eW,        \* the watermark value W
    eLoc,      \* max_loc after the second minMaxLoc
    epc,       \* "idle" | "ready" | "done"
    (* the two embedding passes of main *)
    heap,      \* pixel buffers: Mat headers share them by reference count
    Vdct,      \* vector<Mat>: each element is an index into heap
    Vcdct,     \* vector<Mat>: each element is an index into heap
    pV,        \* vector<Mat> V: the image blocks (8-bit pixels)
    Wfield,    \* the watermark values read for each block
    pi,        \* loop index of the host embedding loop
    ppc,       \* "idle" | "dct" | "host" | "cuda"
    (* control flow of main *)
    argc, decodable, imgRows, imgCols,   \* the run's input
    Irows, Icols,                        \* the padded image I
    N,                                   \* block size (main line 162)
    V,                                   \* createBlocks' vector: one Rect per block
    ci, cj,                              \* createBlocks' loop variables i, j
    li,                                  \* index of the running block loop
    files,                               \* output files written so far
    status,                              \* exit status: "none" | "zero" | "nonzero"
    cause,                               \* what ended the run
    pc

tileVars  == <<tI, tN, tV, tT, tRois, tpc>>
embedVars == <<eVi, eVin, eW, eLoc, epc>>
passVars  == <<heap, Vdct, Vcdct, pV, Wfield, pi, ppc>>
mainVars  == <<argc, decodable, imgRows, imgCols, Irows, Icols, N, V, ci, cj,
               li, files, status, cause, pc>>
vars == <<tileVars, embedVars, passVars, mainVars>>

notTile  == <<embedVars, passVars, mainVars>>
notEmbed == <<tileVars, passVars, mainVars>>
notPass  == <<tileVars, embedVars, mainVars>>
notMain  == <<tileVars, embedVars, passVars>>

(***************************************************************************)
(* Bounds of the model.                                                    *)
(***************************************************************************)
MaxSide == 4       \* largest image side in the tiling specification
MaxSeed == 2       \* parameters of the image family
MaxCoef == 2       \* coefficients range over -MaxCoef..MaxCoef
MaxBlocks == 2     \* blocks per run in the embedding-pass specification
MaxVec == 90       \* blocks a vector holds before push_back fails to allocate

(***************************************************************************)
(* cv::Mat, cv::Rect, cv::Point                                            *)
(***************************************************************************)
Rect(x, y, w, h) == [x |-> x, y |-> y, width |-> w, height |-> h]

Point(x, y) == [x |-> x, y |-> y]

Cells(rows, cols) == (0 .. rows - 1) \X (0 .. cols - 1)

\* cv::Mat::zeros(rows, cols, type)
Zeros(rows, cols) ==
    [rows |-> rows, cols |-> cols, at |-> [p \in Cells(rows, cols) |-> 0]]

\* The CV_Assert of Mat::Mat(const Mat&, const Rect&): the roi lies in the matrix.
RoiInside(roi, rows, cols) ==
    /\ 0 <= roi.x /\ 0 <= roi.width  /\ roi.x + roi.width  <= cols
    /\ 0 <= roi.y /\ 0 <= roi.height /\ roi.y + roi.height <= rows

\* Mat(I, frame): the sub-matrix of I at frame (rows from y, columns from x).
MatRoi(I, frame) ==
    [rows |-> frame.height, cols |-> frame.width, roi |-> frame,
     at |-> [p \in Cells(frame.height, frame.width) |->
                I.at[<<frame.y + p[1], frame.x + p[2]>>]]]

\* src.copyTo(dst_roi) where dst_roi is the view of I at roi.
CopyToRoi(src, I, roi) ==
    [I EXCEPT !.at =
        [p \in DOMAIN I.at |->
            IF /\ roi.y <= p[1] /\ p[1] < roi.y + roi.height
               /\ roi.x <= p[2] /\ p[2] < roi.x + roi.width
            THEN src.at[<<p[1] - roi.y, p[2] - roi.x>>]
            ELSE I.at[p]]]

(***************************************************************************)
(* createBlocks (lines 51-71)                                              *)
(***************************************************************************)
\* The loop condition of both for loops: i < M1 - N + 1.
TileCond(i, M1, bs) == i < M1 - bs + 1

\* As TileFrame, with i taken for the row: Rect(j, i, N, N).
TileFrameT(i, j, bs) == Rect(j, i, bs, bs)

\* Rect frame = Rect(i, j, N, N): i, the outer variable, is the x coordinate.
TileFrame(i, j, bs) == Rect(i, j, bs, bs)

RECURSIVE InnerLoop(_, _, _, _, _)
InnerLoop(vec, I, bs, i, j) ==
    IF TileCond(j, I.rows, bs)
    THEN InnerLoop(Append(vec, MatRoi(I, TileFrame(i, j, bs))), I, bs, i, j + bs)
    ELSE vec

RECURSIVE OuterLoop(_, _, _, _)
OuterLoop(vec, I, bs, i) ==
    IF TileCond(i, I.rows, bs)
    THEN OuterLoop(InnerLoop(vec, I, bs, i, 0), I, bs, i + bs)
    ELSE vec

\* The loops of createBlocks (lines 62-70), for a block size of at least 1.
createBlocks(vec, I, bs) == OuterLoop(vec, I, bs, 0)

(***************************************************************************)
(* assembleBlocks (lines 74-84)                                            *)
(***************************************************************************)
\* row_num = (int)floor(i / n), col_num = i % n,
\* Rect(row_num * V[i].cols, col_num * V[i].rows, V[i].cols, V[i].rows)
DstRoi(i, gw, bcols, brows) ==
    Rect((i \div gw) * bcols, (i % gw) * brows, bcols, brows)

RECURSIVE AssembleFrom(_, _, _, _, _)
AssembleFrom(vec, I, gw, i, log) ==
    IF i >= Len(vec)
    THEN [img |-> I, rois |-> log, thrown |-> FALSE]
    ELSE LET roi == DstRoi(i, gw, vec[i + 1].cols, vec[i + 1].rows)
         IN  IF ~RoiInside(roi, I.rows, I.cols)
             THEN [img |-> I, rois |-> log, thrown |-> TRUE]
             ELSE AssembleFrom(vec, CopyToRoi(vec[i + 1], I, roi), gw, i + 1,
                               Append(log, roi))

assembleBlocks(vec, I, gw) == AssembleFrom(vec, I, gw, 0, <<>>)

(***************************************************************************)
(* Tiling specification: an image is tiled, then reassembled into a        *)
(* zero-initialised target of the same size with n = I.cols / N.           *)
(***************************************************************************)
Img(rows, cols, a, b, k) ==
    [rows |-> rows, cols |-> cols,
     at |-> [p \in Cells(rows, cols) |->
                (a * (p[1] * cols + p[2]) + b * p[2] + k) % 256]]

Images ==
    { Img(r, c, a, b, k) : r \in 1 .. MaxSide, c \in 1 .. MaxSide,
                           a \in 0 .. MaxSeed, b \in 0 .. MaxSeed, k \in 0 .. MaxSeed }

NoMat == [rows |-> 0, cols |-> 0, at |-> <<>>]

TileIdle ==
    /\ tI = NoMat /\ tN = 0 /\ tV = <<>> /\ tT = NoMat /\ tRois = <<>>
    /\ tpc = "idle"

TileInit ==
    /\ tI \in Images
    /\ tN \in 1 .. MaxSide
    /\ tV = <<>>
    /\ tT = Zeros(tI.rows, tI.cols)
    /\ tRois = <<>>
    /\ tpc = "start"

\* createBlocks(V, I, N): exit(0) when the image is not square (lines 56-60).
CreateBlocksCall ==
    /\ tpc = "start"
    /\ IF tI.rows # tI.cols
       THEN /\ tpc' = "exit"
            /\ tV' = tV
       ELSE /\ tpc' = "tiled"
            /\ tV' = createBlocks(tV, tI, tN)
    /\ UNCHANGED <<tI, tN, tT, tRois>>
    /\ UNCHANGED notTile

\* assembleBlocks(V, T, I.cols / N)
AssembleBlocksCall ==
    /\ tpc = "tiled"
    /\ LET r == assembleBlocks(tV, tT, tI.cols \div tN)
       IN  /\ tT' = r.img
           /\ tRois' = r.rois
           /\ tpc' = IF r.thrown THEN "thrown" ELSE "assembled"
    /\ UNCHANGED <<tI, tN, tV>>
    /\ UNCHANGED notTile

TileNext == CreateBlocksCall \/ AssembleBlocksCall

(***************************************************************************)
(* placeWatermark (lines 87-105)                                           *)
(*                                                                         *)
(* Coefficients and watermark values are integers in units of 1/4, so that *)
(* alpha * W is exact for W in {0, 0.5, 1.0}.                              *)
(***************************************************************************)
AlphaNum == 1
AlphaDen == 2

\* alpha * W with float alpha = 0.5
AlphaTimes(w) == (AlphaNum * w) \div AlphaDen

\* Mat::at<float>(Point): row pt.y, column pt.x
At(M, pt) == M.at[<<pt.y, pt.x>>]

SetAt(M, pt, v) == [M EXCEPT !.at[<<pt.y, pt.x>>] = v]

\* Position of a cell in the row-major scan of a continuous matrix.
ScanIdx(M, p) == p[1] * M.cols + p[2]

\* minMaxLoc's max_val: the largest (signed) value.
MaxVal(M) ==
    CHOOSE v \in { M.at[p] : p \in DOMAIN M.at } :
        \A q \in DOMAIN M.at : M.at[q] <= v

\* minMaxLoc's max_loc: the first cell of the scan holding max_val.
MaxLoc(M) ==
    LET hits == { p \in DOMAIN M.at : M.at[p] = MaxVal(M) }
        best == CHOOSE p \in hits :
                    \A q \in hits : ScanIdx(M, p) <= ScanIdx(M, q)
    IN  Point(best[2], best[1])

\* Lines 92-97: temp is a copy of Vi with Vi's maximum set to 0.
MaskedTemp(Vi) == SetAt(Vi, MaxLoc(Vi), 0)

\* Line 100: max_loc of temp.
EmbedTarget(Vi) == MaxLoc(MaskedTemp(Vi))

\* As placeWatermark, with temp sharing Vi's buffer (temp = Vi).
placeWatermarkShared(Vi, w) ==
    LET t == MaskedTemp(Vi)
        loc == MaxLoc(t)
    IN  SetAt(t, loc, At(t, loc) + AlphaTimes(w))

\* Line 104: Vi.at(max_loc) = Vi.at(max_loc) + alpha * W
placeWatermark(Vi, w) ==
    LET loc == EmbedTarget(Vi)
    IN  SetAt(Vi, loc, At(Vi, loc) + AlphaTimes(w))

(***************************************************************************)
(* Embedding specification: placeWatermark applied to one block.           *)
(***************************************************************************)
BlockSides == {1, 2}

CoefBlocks ==
    UNION { { [rows |-> s, cols |-> s, at |-> f] :
                f \in [Cells(s, s) -> (-MaxCoef) .. MaxCoef] } : s \in BlockSides }

\* 0, 0.5 and 1.0 in units of 1/4
WValues == {0, 2, 4}

NoPoint == Point(-1, -1)

EmbedIdle ==
    /\ eVi = NoMat /\ eVin = NoMat /\ eW = 0 /\ eLoc = NoPoint /\ epc = "idle"

EmbedInit ==
    /\ eVi \in CoefBlocks
    /\ eVin = eVi
    /\ eW \in WValues
    /\ eLoc = NoPoint
    /\ epc = "ready"

PlaceWatermarkCall ==
    /\ epc = "ready"
    /\ eLoc' = EmbedTarget(eVi)
    /\ eVi' = placeWatermark(eVi, eW)
    /\ epc' = "done"
    /\ UNCHANGED <<eVin, eW>>
    /\ UNCHANGED notEmbed

EmbedNext == PlaceWatermarkCall

(***************************************************************************)
(* The embedding passes of main: the DCT loop (lines 166-175), the host    *)
(* embedding loop (lines 186-192), up to the start of the accelerated      *)
(* embedding loop (line 213).  Blocks are 2 x 2 and black or white.        *)
(***************************************************************************)
PixBlocks ==
    { [rows |-> 2, cols |-> 2, at |-> f] : f \in [Cells(2, 2) -> {0, 255}] }

\* Vi.convertTo(Vi, CV_32F, 1.0 / 255), in units of 1/4
ConvertTo32F(B) == [B EXCEPT !.at = [p \in DOMAIN B.at |-> (B.at[p] * 4) \div 255]]

\* dct(Vi, Vti) for a 2 x 2 block: the orthonormal DCT-II, (1/2) H X H.
dct(X) ==
    LET a == X.at[<<0, 0>>]  b == X.at[<<0, 1>>]
        c == X.at[<<1, 0>>]  d == X.at[<<1, 1>>]
    IN  [X EXCEPT !.at = [p \in DOMAIN X.at |->
            CASE p = <<0, 0>> -> (a + b + c + d) \div 2
              [] p = <<0, 1>> -> (a - b + c - d) \div 2
              [] p = <<1, 0>> -> (a + b - c - d) \div 2
              [] OTHER        -> (a - b - c + d) \div 2]]

RECURSIVE SeqsUpTo(_, _)
SeqsUpTo(S, k) ==
    IF k = 0 THEN {<<>>}
    ELSE LET shorter == SeqsUpTo(S, k - 1)
         IN  shorter \cup { Append(q, x) : q \in shorter, x \in S }

PassIdle ==
    /\ heap = <<>> /\ Vdct = <<>> /\ Vcdct = <<>> /\ pV = <<>> /\ Wfield = <<>>
    /\ pi = 0 /\ ppc = "idle"

PassInit ==
    /\ pV \in SeqsUpTo(PixBlocks, MaxBlocks)
    /\ heap = <<>> /\ Vdct = <<>> /\ Vcdct = <<>> /\ Wfield = <<>>
    /\ pi = 0
    /\ ppc = "dct"

\* One iteration of the loop of lines 169-175: Vti is allocated by dct, and both
\* push_backs copy the header of Vti, which shares Vti's buffer.
DctIteration ==
    /\ ppc = "dct"
    /\ Len(Vdct) < Len(pV)
    /\ LET Vi == ConvertTo32F(pV[Len(Vdct) + 1])
           buf == Len(heap) + 1
       IN  /\ heap' = Append(heap, dct(Vi))
           /\ Vdct' = Append(Vdct, buf)
           /\ Vcdct' = Append(Vcdct, buf)
    /\ UNCHANGED <<pV, Wfield, pi, ppc>>
    /\ UNCHANGED notPass

DctLoopEnd ==
    /\ ppc = "dct"
    /\ Len(Vdct) = Len(pV)
    /\ ppc' = "host"
    /\ pi' = 0
    /\ UNCHANGED <<heap, Vdct, Vcdct, pV, Wfield>>
    /\ UNCHANGED notPass

\* One iteration of the loop of lines 187-192.
HostEmbedIteration ==
    /\ ppc = "host"
    /\ pi < Len(Vdct)
    /\ \E w \in WValues :
          /\ heap' = [heap EXCEPT ![Vdct[pi + 1]] = placeWatermark(@, w)]
          /\ Wfield' = Append(Wfield, w)
    /\ pi' = pi + 1
    /\ UNCHANGED <<Vdct, Vcdct, pV, ppc>>
    /\ UNCHANGED notPass

\* The host loop ends; lines 196-208 build D, Id from new buffers and leave
\* Vdct and Vcdct alone; control reaches the loop of line 213.
HostLoopEnd ==
    /\ ppc = "host"
    /\ pi = Len(Vdct)
    /\ ppc' = "cuda"
    /\ UNCHANGED <<heap, Vdct, Vcdct, pV, Wfield, pi>>
    /\ UNCHANGED notPass

PassNext == DctIteration \/ DctLoopEnd \/ HostEmbedIteration \/ HostLoopEnd

(***************************************************************************)
(* main (lines 107-240) and processImageFromFile (lines 14-40): control    *)
(* flow, exits and output files.  Pixel contents are not part of this      *)
(* specification: an image is its size, a block is its Rect.  The random   *)
(* generators, imshow and waitKey are taken to return normally.            *)
(***************************************************************************)
n == 8

TargetSide == 512

RECURSIVE Strip(_, _)
Strip(m, p) == IF m % p = 0 THEN Strip(m \div p, p) ELSE m

\* cv::getOptimalDFTSize: the smallest 2^a * 3^b * 5^c that is >= x.
getOptimalDFTSize(x) ==
    LET Smooth(m) == Strip(Strip(Strip(m, 2), 3), 5) = 1
    IN  CHOOSE m \in x .. 2 * x :
            Smooth(m) /\ \A k \in x .. m - 1 : ~Smooth(k)

RawSides == {3, 7, 9, 16, 512, 570}

AllFiles == {"watermark.png", "dcts.png", "lena_reassembled.png"}

MainIdle ==
    /\ argc = 0 /\ decodable = FALSE /\ imgRows = 0 /\ imgCols = 0
    /\ Irows = 0 /\ Icols = 0 /\ N = 0 /\ V = <<>> /\ ci = 0 /\ cj = 0 /\ li = 0
    /\ files = {} /\ status = "none" /\ cause = "none" /\ pc = "idle"

MainInit ==
    /\ argc \in {1, 2}
    /\ decodable \in BOOLEAN
    /\ imgRows \in RawSides
    /\ imgCols \in RawSides
    /\ Irows = 0 /\ Icols = 0 /\ N = 0 /\ V = <<>> /\ ci = 0 /\ cj = 0 /\ li = 0
    /\ files = {}
    /\ status = "none"
    /\ cause = "none"
    /\ pc = "main"

\* The run ends: exit(), return from main, or an abnormal termination.
End(st, why) ==
    /\ pc' = "ended"
    /\ status' = st
    /\ cause' = why

\* Lines 111-115: return -1 unless argc is 2.
CheckArgs ==
    /\ pc = "main"
    /\ IF argc # 2
       THEN End("nonzero", "noarg")
       ELSE /\ pc' = "imread"
            /\ UNCHANGED <<status, cause>>
    /\ UNCHANGED <<argc, decodable, imgRows, imgCols, Irows, Icols, N, V, ci, cj,
                   li, files>>
    /\ UNCHANGED notMain

\* Lines 17-23: imread; exit(0) when the image is empty.
ReadImage ==
    /\ pc = "imread"
    /\ IF ~decodable
       THEN End("zero", "decode")
       ELSE /\ pc' = "pad"
            /\ UNCHANGED <<status, cause>>
    /\ UNCHANGED <<argc, decodable, imgRows, imgCols, Irows, Icols, N, V, ci, cj,
                   li, files>>
    /\ UNCHANGED notMain

\* Lines 26-39: exit(0) when the padded sizes differ, else I is the padded image.
PadImage ==
    /\ pc = "pad"
    /\ LET M == getOptimalDFTSize(imgRows)
           Np == getOptimalDFTSize(imgCols)
       IN  IF M # Np
           THEN /\ End("zero", "nonsquare")
                /\ UNCHANGED <<Irows, Icols>>
           ELSE /\ Irows' = M
                /\ Icols' = Np
                /\ pc' = "watermark"
                /\ UNCHANGED <<status, cause>>
    /\ UNCHANGED <<argc, decodable, imgRows, imgCols, N, V, ci, cj, li, files>>
    /\ UNCHANGED notMain

\* Lines 121-159: the watermark is created and watermark.png is written.
WriteWatermark ==
    /\ pc = "watermark"
    /\ files' = files \cup {"watermark.png"}
    /\ pc' = "createBlocks"
    /\ UNCHANGED <<argc, decodable, imgRows, imgCols, Irows, Icols, N, V, ci, cj,
                   li, status, cause>>
    /\ UNCHANGED notMain

\* Lines 162-164 and 53-60: N = I.rows / n; createBlocks is entered and
\* exits with 0 when I is not square.
EnterCreateBlocks ==
    /\ pc = "createBlocks"
    /\ N' = Irows \div n
    /\ IF Irows # Icols
       THEN End("zero", "nonsquare")
       ELSE /\ pc' = "tile"
            /\ UNCHANGED <<status, cause>>
    /\ ci' = 0
    /\ cj' = 0
    /\ UNCHANGED <<argc, decodable, imgRows, imgCols, Irows, Icols, V, li, files>>
    /\ UNCHANGED notMain

\* Lines 64-69: one iteration of the inner loop.
TilePush ==
    /\ pc = "tile"
    /\ TileCond(ci, Irows, N)
    /\ TileCond(cj, Irows, N)
    /\ Len(V) < MaxVec
    /\ V' = Append(V, TileFrame(ci, cj, N))
    /\ cj' = cj + N
    /\ UNCHANGED <<argc, decodable, imgRows, imgCols, Irows, Icols, N, ci, li,
                   files, status, cause, pc>>
    /\ UNCHANGED notMain

\* Line 68: push_back cannot allocate; std::bad_alloc is not caught.
TilePushFails ==
    /\ pc = "tile"
    /\ TileCond(ci, Irows, N)
    /\ TileCond(cj, Irows, N)
    /\ Len(V) >= MaxVec
    /\ End("nonzero", "bad_alloc")
    /\ UNCHANGED <<argc, decodable, imgRows, imgCols, Irows, Icols, N, V, ci, cj,
                   li, files>>
    /\ UNCHANGED notMain

\* Lines 62-64: the inner loop ends, i += N.
TileNextColumn ==
    /\ pc = "tile"
    /\ TileCond(ci, Irows, N)
    /\ ~TileCond(cj, Irows, N)
    /\ ci' = ci + N
    /\ cj' = 0
    /\ UNCHANGED <<argc, decodable, imgRows, imgCols, Irows, Icols, N, V, li,
                   files, status, cause, pc>>
    /\ UNCHANGED notMain

\* Line 62: the outer loop ends and createBlocks returns.
TileDone ==
    /\ pc = "tile"
    /\ ~TileCond(ci, Irows, N)
    /\ pc' = "dct"
    /\ UNCHANGED <<argc, decodable, imgRows, imgCols, Irows, Icols, N, V, ci, cj,
                   li, files, status, cause>>
    /\ UNCHANGED notMain

\* Where control goes after each block loop of main.
After(l) ==
    CASE l = "dct"         -> "assembleIdct"
      [] l = "assembleIdct" -> "writeDcts"
      [] l = "writeDcts"    -> "hostEmbed"
      [] l = "hostEmbed"    -> "idct"
      [] l = "idct"         -> "assembleId"
      [] l = "assembleId"   -> "writeReassembled"
      [] l = "writeReassembled" -> "cudaEmbed"
      [] l = "cudaEmbed"    -> "idctC"
      [] l = "idctC"        -> "assembleIcd"
      [] l = "assembleIcd"  -> "return"

\* Lines 167-175, 197-202, 226-231: a transform of every block; the outputs have
\* the sizes of the inputs.
TransformLoop ==
    /\ pc \in {"dct", "idct", "idctC"}
    /\ pc' = After(pc)
    /\ li' = 0
    /\ UNCHANGED <<argc, decodable, imgRows, imgCols, Irows, Icols, N, V, ci, cj,
                   files, status, cause>>
    /\ UNCHANGED notMain

AssemblePcs == {"assembleIdct", "assembleId", "assembleIcd"}

\* Line 80 for block li of the vector, whose blocks have V's sizes.
NextDstRoi == DstRoi(li, n, V[li + 1].width, V[li + 1].height)

\* Lines 76-83: one iteration of assembleBlocks into a 512 x 512 target.
AssembleCopy ==
    /\ pc \in AssemblePcs
    /\ li < Len(V)
    /\ RoiInside(NextDstRoi, TargetSide, TargetSide)
    /\ li' = li + 1
    /\ UNCHANGED <<argc, decodable, imgRows, imgCols, Irows, Icols, N, V, ci, cj,
                   files, status, cause, pc>>
    /\ UNCHANGED notMain

\* Line 80: the roi is not inside the target; cv::Exception is not caught.
AssembleThrows ==
    /\ pc \in AssemblePcs
    /\ li < Len(V)
    /\ ~RoiInside(NextDstRoi, TargetSide, TargetSide)
    /\ End("nonzero", "roi")
    /\ UNCHANGED <<argc, decodable, imgRows, imgCols, Irows, Icols, N, V, ci, cj,
                   li, files>>
    /\ UNCHANGED notMain

AssembleDone ==
    /\ pc \in AssemblePcs
    /\ li >= Len(V)
    /\ pc' = After(pc)
    /\ li' = 0
    /\ UNCHANGED <<argc, decodable, imgRows, imgCols, Irows, Icols, N, V, ci, cj,
                   files, status, cause>>
    /\ UNCHANGED notMain

\* Lines 181-183 and 206-208: an output image is written.
WriteImage ==
    /\ pc \in {"writeDcts", "writeReassembled"}
    /\ files' = files \cup {IF pc = "writeDcts" THEN "dcts.png"
                                                ELSE "lena_reassembled.png"}
    /\ pc' = After(pc)
    /\ li' = 0
    /\ UNCHANGED <<argc, decodable, imgRows, imgCols, Irows, Icols, N, V, ci, cj,
                   status, cause>>
    /\ UNCHANGED notMain

EmbedPcs == {"hostEmbed", "cudaEmbed"}

\* Lines 188-190, 214-216: the cell of W read for block i.
FieldCell(i) == <<i \div n, i % n>>

\* W is n x n (lines 46, 129).
InField(cell) == cell[1] < n /\ cell[2] < n

\* Lines 187-192, 213-221: one iteration, W.at<float>(row_num, col_num) in W.
EmbedBlock ==
    /\ pc \in EmbedPcs
    /\ li < Len(V)
    /\ InField(FieldCell(li))
    /\ li' = li + 1
    /\ UNCHANGED <<argc, decodable, imgRows, imgCols, Irows, Icols, N, V, ci, cj,
                   files, status, cause, pc>>
    /\ UNCHANGED notMain

\* The read is past the end of W's buffer: the value read is arbitrary ...
EmbedBlockStrayRead ==
    /\ pc \in EmbedPcs
    /\ li < Len(V)
    /\ ~InField(FieldCell(li))
    /\ li' = li + 1
    /\ UNCHANGED <<argc, decodable, imgRows, imgCols, Irows, Icols, N, V, ci, cj,
                   files, status, cause, pc>>
    /\ UNCHANGED notMain

\* ... or the read faults (or, in a debug build, at() asserts).
EmbedBlockFault ==
    /\ pc \in EmbedPcs
    /\ li < Len(V)
    /\ ~InField(FieldCell(li))
    /\ End("nonzero", "stray_read")
    /\ UNCHANGED <<argc, decodable, imgRows, imgCols, Irows, Icols, N, V, ci, cj,
                   li, files>>
    /\ UNCHANGED notMain

EmbedLoopEnd ==
    /\ pc \in EmbedPcs
    /\ li >= Len(V)
    /\ pc' = After(pc)
    /\ li' = 0
    /\ UNCHANGED <<argc, decodable, imgRows, imgCols, Irows, Icols, N, V, ci, cj,
                   files, status, cause>>
    /\ UNCHANGED notMain

\* Lines 238-239: return 0.
Return ==
    /\ pc = "return"
    /\ End("zero", "return")
    /\ UNCHANGED <<argc, decodable, imgRows, imgCols, Irows, Icols, N, V, ci, cj,
                   li, files>>
    /\ UNCHANGED notMain

MainNext ==
    \/ CheckArgs \/ ReadImage \/ PadImage \/ WriteWatermark \/ EnterCreateBlocks
    \/ TilePush \/ TilePushFails \/ TileNextColumn \/ TileDone
    \/ TransformLoop
    \/ AssembleCopy \/ AssembleThrows \/ AssembleDone
    \/ WriteImage
    \/ EmbedBlock \/ EmbedBlockStrayRead \/ EmbedBlockFault \/ EmbedLoopEnd
    \/ Return

(***************************************************************************)
(* Specifications                                                          *)
(***************************************************************************)
InitTile == TileInit /\ EmbedIdle /\ PassIdle /\ MainIdle

SpecTile == InitTile /\ [][TileNext]_vars

InitEmbed == TileIdle /\ EmbedInit /\ PassIdle /\ MainIdle

SpecEmbed == InitEmbed /\ [][EmbedNext]_vars

InitPass == TileIdle /\ EmbedIdle /\ PassInit /\ MainIdle

SpecPass == InitPass /\ [][PassNext]_vars

Init == TileIdle /\ EmbedIdle /\ PassIdle /\ MainInit

Next == MainNext

Spec == Init /\ [][Next]_vars

(***************************************************************************)
(* Properties                                                              *)
(***************************************************************************)

\* C1: for a square image whose side is an exact multiple of the block size,
\* createBlocks followed by assembleBlocks with n = I.cols / N into a zero
\* target of the same size gives back the image, pixel for pixel.
C1_RoundTrip ==
    (tpc = "assembled" /\ tI.rows % tN = 0) => tT.at = tI.at

\* C1 witness: a reassembled image of at least 2 x 2 blocks, each of at least
\* 2 x 2 pixels, whose pixels (0,1) and (1,0) differ, so that a transposed
\* placement would show.
C1_Witness ==
    /\ tpc = "assembled"
    /\ tI.rows % tN = 0
    /\ tN >= 2
    /\ tI.rows \div tN >= 2
    /\ Len(tV) >= 4
    /\ tI.at[<<0, 1>>] # tI.at[<<1, 0>>]
    /\ tT.at = tI.at

\* C2: placeWatermark never perturbs the DC coefficient: in a block of more
\* than one coefficient the selected coordinate is not (0,0) and the value at
\* (0,0) after embedding is the value before.
C2_DCUntouched ==
    (epc = "done" /\ eVin.rows * eVin.cols > 1) =>
        /\ eLoc # Point(0, 0)
        /\ eVi.at[<<0, 0>>] = eVin.at[<<0, 0>>]

\* C3: placeWatermark changes only the selected coefficient: afterwards the
\* coefficient at max_loc is its old value plus half of W, and every other
\* coefficient of the block is as it was.
C3_SingleMutation ==
    epc = "done" =>
        /\ DOMAIN eVi.at = DOMAIN eVin.at
        /\ 2 * (At(eVi, eLoc) - At(eVin, eLoc)) = eW
        /\ \A p \in DOMAIN eVin.at :
              p # <<eLoc.y, eLoc.x>> => eVi.at[p] = eVin.at[p]

\* C3 witness: a 2 x 2 block with a non-zero coefficient away from the target,
\* embedded with W = 1.0, and the target's value has changed.
C3_Witness ==
    /\ epc = "done"
    /\ eVin.rows = 2
    /\ eW = 4
    /\ At(eVi, eLoc) # At(eVin, eLoc)
    /\ \E p \in DOMAIN eVin.at : p # <<eLoc.y, eLoc.x>> /\ eVin.at[p] # 0

Abs(x) == IF x < 0 THEN -x ELSE x

\* The first cell in row-major order, other than (0,0), of largest magnitude.
MagnitudeTarget(B) ==
    LET cand == DOMAIN B.at \ {<<0, 0>>}
        best == CHOOSE p \in cand :
                    /\ \A q \in cand : Abs(B.at[q]) <= Abs(B.at[p])
                    /\ \A q \in cand : Abs(B.at[q]) = Abs(B.at[p])
                                          => ScanIdx(B, p) <= ScanIdx(B, q)
    IN  Point(best[2], best[1])

\* C4: the embedding target is the coefficient of largest magnitude among the
\* coefficients other than the DC term, the first in row-major order on a tie;
\* for an all-zero block, or one whose only non-zero coefficient is the DC
\* term, that is (0,1).
C4_MaxMagnitudeTarget ==
    (epc = "done" /\ eVin.rows * eVin.cols > 1) =>
        eLoc = MagnitudeTarget(eVin)

\* C5: the run ends with a non-zero exit status when no image path is given,
\* when the file cannot be decoded, and when the padded width and height differ.
C5_FailuresExitNonZero ==
    (/\ pc = "ended"
     /\ \/ argc # 2
        \/ ~decodable
        \/ getOptimalDFTSize(imgRows) # getOptimalDFTSize(imgCols))
    => status = "nonzero"

\* C6: no partial success: when the run ends, either all three output files
\* have been written or none, and a run that did not return from main has
\* written none.
C6_AllOrNothing ==
    pc = "ended" =>
        /\ files \in {{}, AllFiles}
        /\ cause # "return" => files = {}

\* C7: for a decodable image with a square padded size, the tiling loop
\* terminates (it pushes at most one block per pixel), every placement of
\* assembleBlocks lies inside its target, and the run ends only by returning
\* from main after lena_reassembled.png is written.
C7_ValidInputRunsThrough ==
    (/\ argc = 2
     /\ decodable
     /\ getOptimalDFTSize(imgRows) = getOptimalDFTSize(imgCols))
    => /\ pc = "tile" => Len(V) <= Irows * Icols
       /\ (pc \in AssemblePcs /\ li < Len(V))
             => RoiInside(NextDstRoi, TargetSide, TargetSide)
       /\ pc = "ended" => (cause = "return" /\ "lena_reassembled.png" \in files)

\* C8: block addressing is row-major both ways: block k of createBlocks covers
\* pixel rows from (k / g) * bs and pixel columns from (k % g) * bs, and
\* assembleBlocks writes block i at grid row i / gridWidth, grid column
\* i % gridWidth.
C8_RowMajorAddressing ==
    (tpc \in {"tiled", "assembled"}) =>
        /\ \A k \in 0 .. Len(tV) - 1 :
              /\ tV[k + 1].roi.y = (k \div (tI.rows \div tN)) * tN
              /\ tV[k + 1].roi.x = (k % (tI.rows \div tN)) * tN
        /\ \A i \in 0 .. Len(tRois) - 1 :
              /\ tRois[i + 1].y = (i \div (tI.cols \div tN)) * tN
              /\ tRois[i + 1].x = (i % (tI.cols \div tN)) * tN

\* C9: in both embedding loops of main every block index reads a cell inside
\* the n x n watermark field, two blocks never read the same cell, and there
\* are at most n * n blocks.
C9_FieldReadsInside ==
    pc \in EmbedPcs =>
        /\ Len(V) <= n * n
        /\ \A i \in 0 .. Len(V) - 1 : InField(FieldCell(i))
        /\ \A i, k \in 0 .. Len(V) - 1 : FieldCell(i) = FieldCell(k) => i = k

\* C10: the host embedding pass leaves Vcdct alone: when the accelerated
\* embedding loop starts, each Vcdct[i] is the forward transform of image
\* block i, without a watermark.
C10_VcdctUntouched ==
    ppc = "cuda" =>
        \A i \in 1 .. Len(Vcdct) : heap[Vcdct[i]] = dct(ConvertTo32F(pV[i]))

====
